---- MODULE Spec2Model ----
(***************************************************************************)
(* State machine of the goprof profiling session (hooks.go) driven by the  *)
(* /toggle HTTP handler and by the autostop goroutine of each session, and *)
(* read by the /download/ and / handlers under the read lock.              *)
(*                                                                         *)
(* Directories made by ioutil.TempDir are numbered 1, 2, ... in the order  *)
(* of creation; the autostop goroutine and the cancel channel created by   *)
(* the start that made directory d carry the same number d.  time.Now() is *)
(* a clock counted in ticks.  No step of the program has a deadline, so    *)
(* any amount of time may pass between two steps: the timer of an autostop *)
(* goroutine, once armed, may fire at any later moment.                    *)
(***************************************************************************)
EXTENDS Integers, Sequences, FiniteSets, TLC

\* ------------------------------------------------------------------ bounds
MaxDirs == 2         \* directories ioutil.TempDir hands out in one run
MaxTime == 1         \* ticks of the clock in one run
MaxDownloads == 2    \* downloadProfile handlers that run at one time

\* --------------------------------------------------------------- constants
StatusOK == 200
StatusBadRequest == 400

profileCPU == "cpu"
profileTrace == "trace"
profileGoroutine == "goroutine"
profileThreadcreate == "threadcreate"
profileHeap == "heap"
profileBlock == "block"
profileAll == "all"

\* the profile names startProfiling accepts
KnownProfiles ==
  {profileCPU, profileTrace, profileGoroutine, profileThreadcreate,
   profileHeap, profileBlock, profileAll}

ContinuousProfiles == {profileCPU, profileTrace, profileAll}

\* values of the 'profile' query parameter: "" is a missing parameter
ProfileParams == KnownProfiles \cup {"", "mem"}
\* values of the 'enable' query parameter: "" is a missing parameter
EnableParams == {"0", "1", "", "2"}

Dirs == 1..MaxDirs
NoDir == 0           \* the empty string returned for "no directory"
NoChan == 0          \* the nil channel

VARIABLES
  ourCurrentProfile,       \* the profile being written, nil when there is none
  ourWrittenProfiles,      \* the profiles written so far
  ourProfilingStateGuard,  \* who holds the write lock
  ourCancelAutostop,       \* the cancel channel of the last started session
  chanBuf,                 \* chanBuf[d]: values buffered in cancel channel d
  watcher,                 \* watcher[d]: position of autostop goroutine d
  now,                     \* the clock
  tracing,                 \* runtime/trace is collecting
  cpuProfiling,            \* runtime/pprof is sampling the CPU
  dirs,                    \* dirs[d]: "absent", "exists" or "removed"
  packing,                 \* packing[d]: downloadProfile handlers that hold
                           \* the read lock and pack directory d
  last                     \* what the handler that returned last did

vars ==
  <<ourCurrentProfile, ourWrittenProfiles, ourProfilingStateGuard,
    ourCancelAutostop, chanBuf, watcher, now, tracing,
    cpuProfiling, dirs, packing, last>>

\* ------------------------------------------------------------------- types
\* the nil *prof
nil == [Prof |-> "", Dir |-> NoDir, Start |-> 0, Duration |-> 0]

prof(p, dir, start, duration) ==
  [Prof |-> p, Dir |-> dir, Start |-> start, Duration |-> duration]

\* the holder of the write lock: nobody, the toggleProfiling of an HTTP
\* request, or autostop goroutine d
Unlocked == <<"none", 0>>
Request == <<"toggleProfiling", 0>>
WatcherId(d) == <<"autostop", d>>
\* a Lock() that has announced itself and waits for the readers to leave
RequestWaits == <<"toggleProfiling waits", 0>>
WatcherWaits(d) == <<"autostop waits", d>>

\* one invocation of a collector binding, with its arguments and its result
Call(fn, p, dir, ok) == [fn |-> fn, profile |-> p, dir |-> dir, ok |-> ok]

\* what a handler did: the operation, the autostop goroutine that ran it (0
\* for an HTTP request), the error and the directory returned, and the
\* bindings invoked, in order
Did(op, w, err, dir, calls) ==
  [op |-> op, watcher |-> w, err |-> err, dir |-> dir, calls |-> calls]

NoOp == Did("none", 0, "", NoDir, <<>>)

\* ---------------------------------------------------------------- helpers
\* OneOff that takes heap for a profile to be started and stopped
OneOff_NoHeap(p) ==
  p \in {profileGoroutine, profileThreadcreate, profileBlock}

OneOff(p) ==
  p \in {profileGoroutine, profileThreadcreate, profileHeap, profileBlock}

profilingInProgress == ourCurrentProfile # nil

\* the switch at the head of startProfiling
IsKnownProfile(p) == p \in KnownProfiles

\* the directory ioutil.TempDir creates next
NextDir == Cardinality({d \in Dirs : dirs[d] # "absent"}) + 1

\* the one step of a request that the environment makes fail, if any:
\* ioutil.TempDir, startWritingTrace, startCPUProfiling or dumpProfile
Faults == {"none", "tempdir", "trace", "cpu", "dump"}

\* the faults that a start of profile p can meet
StartFaults(p) ==
  {f \in Faults :
     \/ f = "none"
     \/ f = "tempdir" /\ p \in KnownProfiles
     \/ f = "trace" /\ p \in {profileTrace, profileAll}
     \/ f = "cpu" /\ p \in {profileCPU, profileAll}
     \/ f = "dump" /\ p \in KnownProfiles \ ContinuousProfiles}

\* the begin bindings doStartProfiling invokes, up to the first that fails
BeginCalls(p, dir, fault) ==
  LET t == IF p = profileTrace \/ p = profileAll
           THEN <<Call("startWritingTrace", "", dir, fault # "trace")>>
           ELSE <<>>
      traceFailed == t # <<>> /\ fault = "trace"
      c == IF ~traceFailed /\ (p = profileCPU \/ p = profileAll)
           THEN <<Call("startCPUProfiling", "", dir, fault # "cpu")>>
           ELSE <<>>
  IN  t \o c

\* CleanupCalls that stops nothing
CleanupCalls_None(p) == <<>>

\* CleanupCalls that stops the CPU sampler only
CleanupCalls_NoTraceStop(p) ==
  IF p = profileCPU \/ p = profileAll
  THEN <<Call("stopCPUProfiling", "", NoDir, TRUE)>> ELSE <<>>

\* the deferred cleanup of doStartProfiling when err # nil
CleanupCalls(p) ==
  (IF p = profileTrace \/ p = profileAll
   THEN <<Call("stopWritingTrace", "", NoDir, TRUE)>> ELSE <<>>)
  \o
  (IF p = profileCPU \/ p = profileAll
   THEN <<Call("stopCPUProfiling", "", NoDir, TRUE)>> ELSE <<>>)

\* StopCalls that forgets the trace collector
StopCalls_NoTraceStop(cur, fault) ==
  (IF cur.Prof = profileAll
   THEN <<Call("dumpProfile", profileHeap, cur.Dir, fault # "dump")>> ELSE <<>>)
  \o
  (IF cur.Prof = profileCPU \/ cur.Prof = profileAll
   THEN <<Call("stopCPUProfiling", "", NoDir, TRUE)>> ELSE <<>>)

\* StopCalls that gives up when dumpProfile fails
StopCalls_AbortOnDumpFailure(cur, fault) ==
  IF cur.Prof = profileAll /\ fault = "dump"
  THEN <<Call("dumpProfile", profileHeap, cur.Dir, FALSE)>>
  ELSE (IF cur.Prof = profileAll
        THEN <<Call("dumpProfile", profileHeap, cur.Dir, TRUE)>> ELSE <<>>)
       \o
       (IF cur.Prof = profileCPU \/ cur.Prof = profileAll
        THEN <<Call("stopCPUProfiling", "", NoDir, TRUE)>> ELSE <<>>)
       \o
       (IF cur.Prof = profileTrace \/ cur.Prof = profileAll
        THEN <<Call("stopWritingTrace", "", NoDir, TRUE)>> ELSE <<>>)

\* StopCalls that stops both collectors whatever the profile
StopCalls_AllCollectors(cur, fault) ==
  (IF cur.Prof = profileAll
   THEN <<Call("dumpProfile", profileHeap, cur.Dir, fault # "dump")>> ELSE <<>>)
  \o
  <<Call("stopCPUProfiling", "", NoDir, TRUE),
    Call("stopWritingTrace", "", NoDir, TRUE)>>

\* StopCalls that stops the trace collector before the CPU sampler
StopCalls_TraceFirst(cur, fault) ==
  (IF cur.Prof = profileAll
   THEN <<Call("dumpProfile", profileHeap, cur.Dir, fault # "dump")>> ELSE <<>>)
  \o
  (IF cur.Prof = profileTrace \/ cur.Prof = profileAll
   THEN <<Call("stopWritingTrace", "", NoDir, TRUE)>> ELSE <<>>)
  \o
  (IF cur.Prof = profileCPU \/ cur.Prof = profileAll
   THEN <<Call("stopCPUProfiling", "", NoDir, TRUE)>> ELSE <<>>)

\* the bindings doStopProfiling invokes for the profile being written
StopCalls(cur, fault) ==
  (IF cur.Prof = profileAll
   THEN <<Call("dumpProfile", profileHeap, cur.Dir, fault # "dump")>> ELSE <<>>)
  \o
  (IF cur.Prof = profileCPU \/ cur.Prof = profileAll
   THEN <<Call("stopCPUProfiling", "", NoDir, TRUE)>> ELSE <<>>)
  \o
  (IF cur.Prof = profileTrace \/ cur.Prof = profileAll
   THEN <<Call("stopWritingTrace", "", NoDir, TRUE)>> ELSE <<>>)

AnyFailed(calls) == \E i \in 1..Len(calls) : ~calls[i].ok

\* what one binding does to the collectors: a begin that fails leaves no
\* residual state, a stop always stops
AfterCall(running, call) ==
  CASE call.fn = "startWritingTrace" /\ call.ok -> [running EXCEPT !.trace = TRUE]
    [] call.fn = "stopWritingTrace"  -> [running EXCEPT !.trace = FALSE]
    [] call.fn = "startCPUProfiling" /\ call.ok -> [running EXCEPT !.cpu = TRUE]
    [] call.fn = "stopCPUProfiling"  -> [running EXCEPT !.cpu = FALSE]
    [] OTHER -> running

RECURSIVE AfterCalls(_, _)
AfterCalls(running, calls) ==
  IF calls = <<>> THEN running
  ELSE AfterCalls(AfterCall(running, Head(calls)), Tail(calls))

Collectors == [trace |-> tracing, cpu |-> cpuProfiling]

\* the collectors perform the calls
Invoke(calls) ==
  /\ tracing' = AfterCalls(Collectors, calls).trace
  /\ cpuProfiling' = AfterCalls(Collectors, calls).cpu

\* cancelAutoStop: a send that never blocks; it is dropped when the channel
\* is nil or its one-slot buffer is full
cancelAutoStop(ch, buf) ==
  IF ch # NoChan /\ buf[ch] = 0 THEN [buf EXCEPT ![ch] = 1] ELSE buf

RECURSIVE Sum(_, _)
Sum(f, S) ==
  IF S = {} THEN 0
  ELSE LET x == CHOOSE y \in S : TRUE IN f[x] + Sum(f, S \ {x})

\* the holders of the read lock
Readers == Sum(packing, Dirs)

\* ---------------------------------------------------------------- initial
Init ==
  /\ ourCurrentProfile = nil
  /\ ourWrittenProfiles = <<>>
  /\ ourProfilingStateGuard = Unlocked
  /\ ourCancelAutostop = NoChan
  /\ chanBuf = [d \in Dirs |-> 0]
  /\ watcher = [d \in Dirs |-> "none"]
  /\ now = 0
  /\ tracing = FALSE
  /\ cpuProfiling = FALSE
  /\ dirs = [d \in Dirs |-> "absent"]
  /\ packing = [d \in Dirs |-> 0]
  /\ last = NoOp

\* --------------------------------------------------------- doStartProfiling
\* every binding startProfiling invokes, in order
StartCalls(p, dir, fault) ==
  IF OneOff(p)
  THEN <<Call("dumpProfile", p, dir, fault # "dump")>>
  ELSE LET begun == BeginCalls(p, dir, fault)
       IN  IF AnyFailed(begun) THEN begun \o CleanupCalls(p) ELSE begun

\* StartError without the check of profilingInProgress
StartError_NoRunningCheck(p, fault) ==
  IF ~IsKnownProfile(p) THEN "unknown profile"
  ELSE IF fault = "tempdir" THEN "tempdir"
  ELSE IF ~AnyFailed(StartCalls(p, NextDir, fault)) THEN ""
  ELSE IF OneOff(p) THEN "failed to write heap profile"
  ELSE "start failed"

\* StartError that lets a one-off profile through while a session is active
StartError_OneOffAnytime(p, fault) ==
  IF ~IsKnownProfile(p) THEN "unknown profile"
  ELSE IF profilingInProgress /\ ~OneOff(p) THEN "already started"
  ELSE IF fault = "tempdir" THEN "tempdir"
  ELSE IF ~AnyFailed(StartCalls(p, NextDir, fault)) THEN ""
  ELSE IF OneOff(p) THEN "failed to write heap profile"
  ELSE "start failed"

\* StartError that looks at profilingInProgress before it looks at the name
StartError_RunningFirst(p, fault) ==
  IF profilingInProgress THEN "already started"
  ELSE IF ~IsKnownProfile(p) THEN "unknown profile"
  ELSE IF fault = "tempdir" THEN "tempdir"
  ELSE IF ~AnyFailed(StartCalls(p, NextDir, fault)) THEN ""
  ELSE IF OneOff(p) THEN "failed to write heap profile"
  ELSE "start failed"

\* the error startProfiling returns, "" for nil
StartError(p, fault) ==
  IF ~IsKnownProfile(p) THEN "unknown profile"
  ELSE IF profilingInProgress THEN "already started"
  ELSE IF fault = "tempdir" THEN "tempdir"
  ELSE IF ~AnyFailed(StartCalls(p, NextDir, fault)) THEN ""
  ELSE IF OneOff(p) THEN "failed to write heap profile"
  ELSE "start failed"

\* startProfiling got as far as ioutil.TempDir and it made a directory
CreatesDir(p, fault) ==
  StartError(p, fault) \notin {"unknown profile", "already started", "tempdir"}

\* what startProfiling returns and the bindings it invoked
StartResult(p, fault) ==
  LET err == StartError(p, fault)
  IN  Did("start", 0, err,
          IF err = "" THEN NextDir ELSE NoDir,
          IF CreatesDir(p, fault) THEN StartCalls(p, NextDir, fault) ELSE <<>>)

\* DirAfterStart without the os.RemoveAll of the cleanup
DirAfterStart_NoRemove(p, err) == "exists"

\* the directory after a start that created it: the cleanup of a failed
\* continuous start removes it, every other path leaves it
DirAfterStart(p, err) ==
  IF err # "" /\ ~OneOff(p) THEN "removed" ELSE "exists"

\* doStartProfiling that makes a channel only when there is none yet
doStartProfiling_ReusesChannel(p, fault) ==
  LET r == StartResult(p, fault)
      dir == NextDir
  IN  /\ last' = r
      /\ IF ~CreatesDir(p, fault)
         THEN UNCHANGED <<ourCurrentProfile, ourWrittenProfiles,
                          ourCancelAutostop, chanBuf, watcher,
                          tracing, cpuProfiling, dirs>>
         ELSE
           /\ dir \in Dirs
           /\ dirs' = [dirs EXCEPT ![dir] = DirAfterStart(p, r.err)]
           /\ Invoke(r.calls)
           /\ IF OneOff(p)
              THEN /\ ourWrittenProfiles' =
                        IF r.err = ""
                        THEN Append(ourWrittenProfiles, prof(p, dir, now, 0))
                        ELSE ourWrittenProfiles
                   /\ UNCHANGED <<ourCurrentProfile, ourCancelAutostop,
                                  chanBuf, watcher>>
              ELSE IF r.err # ""
              THEN /\ ourCurrentProfile' = nil
                   /\ UNCHANGED <<ourWrittenProfiles, ourCancelAutostop,
                                  chanBuf, watcher>>
              ELSE /\ ourCancelAutostop' =
                        IF ourCancelAutostop = NoChan THEN dir
                        ELSE ourCancelAutostop
                   /\ watcher' = [watcher EXCEPT ![dir] = "select"]
                   /\ ourCurrentProfile' = prof(p, dir, now, 0)
                   /\ UNCHANGED <<ourWrittenProfiles, chanBuf>>

\* startProfiling and doStartProfiling, called with the write lock held
doStartProfiling(p, fault) ==
  LET r == StartResult(p, fault)
      dir == NextDir
  IN  /\ last' = r
      /\ IF ~CreatesDir(p, fault)
         THEN UNCHANGED <<ourCurrentProfile, ourWrittenProfiles,
                          ourCancelAutostop, chanBuf, watcher,
                          tracing, cpuProfiling, dirs>>
         ELSE
           /\ dir \in Dirs
           /\ dirs' = [dirs EXCEPT ![dir] = DirAfterStart(p, r.err)]
           /\ Invoke(r.calls)
           /\ IF OneOff(p)
              THEN /\ ourWrittenProfiles' =
                        IF r.err = ""
                        THEN Append(ourWrittenProfiles, prof(p, dir, now, 0))
                        ELSE ourWrittenProfiles
                   /\ UNCHANGED <<ourCurrentProfile, ourCancelAutostop,
                                  chanBuf, watcher>>
              ELSE IF r.err # ""
              THEN /\ ourCurrentProfile' = nil
                   /\ UNCHANGED <<ourWrittenProfiles, ourCancelAutostop,
                                  chanBuf, watcher>>
              ELSE /\ ourCancelAutostop' = dir
                   /\ watcher' = [watcher EXCEPT ![dir] = "select"]
                   /\ ourCurrentProfile' = prof(p, dir, now, 0)
                   /\ UNCHANGED <<ourWrittenProfiles, chanBuf>>

\* ---------------------------------------------------------- doStopProfiling
\* what doStopProfiling returns and the bindings it invoked; w is the autostop
\* goroutine that calls it, 0 when stopProfiling does
StopResult(w, fault) ==
  Did(IF w = 0 THEN "stop" ELSE "autostop", w, "",
      IF profilingInProgress THEN ourCurrentProfile.Dir ELSE NoDir,
      IF profilingInProgress THEN StopCalls(ourCurrentProfile, fault) ELSE <<>>)

\* Finished that stamps the entry with the time of the stop
Finished_Restamped(cur) == [cur EXCEPT !.Start = now, !.Duration = 0]

\* the entry doStopProfiling appends for the profile being written
Finished(cur) == [cur EXCEPT !.Duration = now - cur.Start]

\* the statements of doStopProfiling in the order in which they run:
\* cancelAutoStop, the bindings, the append to ourWrittenProfiles and the
\* assignment of nil to ourCurrentProfile
StopSteps(cur, fault) ==
  <<"cancelAutoStop">>
  \o
  (IF cur = nil THEN <<>>
   ELSE [i \in 1..Len(StopCalls(cur, fault)) |-> StopCalls(cur, fault)[i].fn]
        \o <<"append", "clear">>)

\* doStopProfiling that leaves ourCurrentProfile set
doStopProfiling_KeepsSlot(w, fault) ==
  /\ last' = StopResult(w, fault)
  /\ chanBuf' = cancelAutoStop(ourCancelAutostop, chanBuf)
  /\ IF ~profilingInProgress
     THEN UNCHANGED <<ourCurrentProfile, ourWrittenProfiles, tracing,
                      cpuProfiling>>
     ELSE /\ Invoke(StopCalls(ourCurrentProfile, fault))
          /\ ourWrittenProfiles' =
               Append(ourWrittenProfiles, Finished(ourCurrentProfile))
          /\ UNCHANGED ourCurrentProfile
  /\ UNCHANGED <<ourCancelAutostop, dirs>>

\* doStopProfiling, called with the write lock held
doStopProfiling(w, fault) ==
  /\ last' = StopResult(w, fault)
  /\ chanBuf' = cancelAutoStop(ourCancelAutostop, chanBuf)
  /\ IF ~profilingInProgress
     THEN UNCHANGED <<ourCurrentProfile, ourWrittenProfiles, tracing,
                      cpuProfiling>>
     ELSE /\ Invoke(StopCalls(ourCurrentProfile, fault))
          /\ ourWrittenProfiles' =
               Append(ourWrittenProfiles, Finished(ourCurrentProfile))
          /\ ourCurrentProfile' = nil
  /\ UNCHANGED <<ourCancelAutostop, dirs>>

\* ----------------------------------------------------------- toggleProfiling
\* ourProfilingStateGuard.Lock() returns in the handler of a request; the
\* answer to the request before it is gone
ToggleLock ==
  /\ ourProfilingStateGuard = Unlocked
  /\ ourProfilingStateGuard' = IF Readers = 0 THEN Request ELSE RequestWaits
  /\ last' = NoOp
  /\ UNCHANGED <<ourCurrentProfile, ourWrittenProfiles, ourCancelAutostop,
                 chanBuf, watcher, now, tracing, cpuProfiling, dirs, packing>>

\* the last reader has left: the Lock() of the request returns
ToggleGranted ==
  /\ ourProfilingStateGuard = RequestWaits
  /\ Readers = 0
  /\ ourProfilingStateGuard' = Request
  /\ UNCHANGED <<ourCurrentProfile, ourWrittenProfiles, ourCancelAutostop,
                 chanBuf, watcher, now, tracing, cpuProfiling, dirs, packing,
                 last>>

\* the handler returns and its deferred Unlock() runs
ToggleDone ==
  /\ ourProfilingStateGuard = Request
  /\ ourProfilingStateGuard' = Unlocked
  /\ UNCHANGED <<now, packing>>

\* 'enable' is neither 0 nor 1: fatalError
ToggleBadParam(enable) ==
  /\ enable # "0" /\ enable # "1"
  /\ last' = Did("badparam", 0, "bad value for enable", NoDir, <<>>)
  /\ ToggleDone
  /\ UNCHANGED <<ourCurrentProfile, ourWrittenProfiles, ourCancelAutostop,
                 chanBuf, watcher, tracing, cpuProfiling, dirs>>

\* enable=1: startProfiling(profile)
ToggleStart(p, fault) ==
  /\ doStartProfiling(p, fault)
  /\ ToggleDone

\* ToggleStop that records the empty slot when there is no session
ToggleStop_NoIdleCheck(fault) ==
  /\ last' = StopResult(0, fault)
  /\ chanBuf' = cancelAutoStop(ourCancelAutostop, chanBuf)
  /\ Invoke(StopCalls(ourCurrentProfile, fault))
  /\ ourWrittenProfiles' =
       Append(ourWrittenProfiles, Finished(ourCurrentProfile))
  /\ ourCurrentProfile' = nil
  /\ UNCHANGED <<ourCancelAutostop, dirs, watcher>>
  /\ ToggleDone

\* enable=0: stopProfiling()
ToggleStop(fault) ==
  /\ doStopProfiling(0, fault)
  /\ UNCHANGED watcher
  /\ ToggleDone

toggleProfiling ==
  \/ \E enable \in EnableParams : ToggleBadParam(enable)
  \/ \E p \in ProfileParams : \E fault \in StartFaults(p) : ToggleStart(p, fault)
  \/ \E fault \in {"none", "dump"} : ToggleStop(fault)

\* Status that answers a stop with success whether or not it stopped anything
Status_StopAlwaysOK(did) ==
  IF did.err # "" THEN StatusBadRequest ELSE StatusOK

\* the HTTP status toggleProfiling answers with: flashError or fatalError on
\* an error and on a stop that returned no directory, success otherwise
Status(did) ==
  IF did.err # "" \/ (did.op = "stop" /\ did.dir = NoDir)
  THEN StatusBadRequest ELSE StatusOK

\* ---------------------------------------------------------- downloadProfile
\* RLock() returns at once: no Lock() holds the lock or waits for it
CanRLock == ourProfilingStateGuard = Unlocked

\* the values of the 'path' query parameter: a directory name, or NoDir for
\* a missing parameter
Paths == Dirs \cup {NoDir}

\* DownloadError that does not look at ourCurrentProfile
DownloadError_NoActiveCheck(path) ==
  IF path = NoDir THEN "no such profile"
  ELSE IF dirs[path] # "exists" THEN "cannot stat"
  ELSE ""

\* what downloadProfile answers before it packs anything, "" to go on
DownloadError(path) ==
  IF path = NoDir THEN "no such profile"
  ELSE IF ourCurrentProfile # nil /\ ourCurrentProfile.Dir = path
  THEN "we write the requested profile"
  ELSE IF dirs[path] # "exists" THEN "cannot stat"
  ELSE ""

\* downloadProfile answers with an error: without the lock when 'path' is
\* missing, else between RLock() and the deferred RUnlock()
DownloadRefused(path) ==
  /\ DownloadError(path) # ""
  /\ path # NoDir => CanRLock
  /\ last' = Did("download", 0, DownloadError(path), NoDir, <<>>)
  /\ UNCHANGED <<ourCurrentProfile, ourWrittenProfiles, ourProfilingStateGuard,
                 ourCancelAutostop, chanBuf, watcher, now, tracing,
                 cpuProfiling, dirs, packing>>

\* downloadProfile takes the read lock, passes the checks and calls
\* packProfiles
DownloadPack(path) ==
  /\ CanRLock
  /\ DownloadError(path) = ""
  /\ Readers < MaxDownloads
  /\ packing' = [packing EXCEPT ![path] = @ + 1]
  /\ UNCHANGED <<ourCurrentProfile, ourWrittenProfiles, ourProfilingStateGuard,
                 ourCancelAutostop, chanBuf, watcher, now, tracing,
                 cpuProfiling, dirs, last>>

\* DownloadDone without the deferred RUnlock()
DownloadDone_KeepsLock(path, ok) ==
  /\ packing[path] > 0
  /\ last' = Did("download", 0, IF ok THEN "" ELSE "failed to pack profiles",
                 path, <<Call("packProfiles", "", path, ok)>>)
  /\ UNCHANGED <<ourCurrentProfile, ourWrittenProfiles, ourProfilingStateGuard,
                 ourCancelAutostop, chanBuf, watcher, now, tracing,
                 cpuProfiling, dirs, packing>>

\* packProfiles returns, the archive or the error is sent and the deferred
\* RUnlock() runs
DownloadDone(path, ok) ==
  /\ packing[path] > 0
  /\ packing' = [packing EXCEPT ![path] = @ - 1]
  /\ last' = Did("download", 0, IF ok THEN "" ELSE "failed to pack profiles",
                 path, <<Call("packProfiles", "", path, ok)>>)
  /\ UNCHANGED <<ourCurrentProfile, ourWrittenProfiles, ourProfilingStateGuard,
                 ourCancelAutostop, chanBuf, watcher, now, tracing,
                 cpuProfiling, dirs>>

\* a request for 'path' arrives and is served up to the call of packProfiles
DownloadRequest(path) == DownloadRefused(path) \/ DownloadPack(path)

downloadProfile ==
  \/ \E path \in Paths : DownloadRequest(path)
  \/ \E path \in Dirs, ok \in BOOLEAN : DownloadDone(path, ok)

\* showWrittenProfiles that puts the profile being written on the list
showWrittenProfiles_WithCurrent ==
  /\ CanRLock
  /\ last' = Did("status", 0, "", NoDir, <<>>)
  /\ ourWrittenProfiles' =
       IF profilingInProgress
       THEN Append(ourWrittenProfiles, ourCurrentProfile)
       ELSE ourWrittenProfiles
  /\ UNCHANGED <<ourCurrentProfile, ourProfilingStateGuard,
                 ourCancelAutostop, chanBuf, watcher, now, tracing,
                 cpuProfiling, dirs, packing>>

\* ------------------------------------------------------ showWrittenProfiles
\* the list of written profiles is served between RLock() and RUnlock()
showWrittenProfiles ==
  /\ CanRLock
  /\ last' = Did("status", 0, "", NoDir, <<>>)
  /\ UNCHANGED <<ourCurrentProfile, ourWrittenProfiles, ourProfilingStateGuard,
                 ourCancelAutostop, chanBuf, watcher, now, tracing,
                 cpuProfiling, dirs, packing>>

\* ------------------------------------------------------ autostop goroutine
\* case <-time.After(maxProfilingDuration): the goroutine calls Lock()
WatcherTimeout(d) ==
  /\ watcher[d] = "select"
  /\ watcher' = [watcher EXCEPT ![d] = "lock"]
  /\ UNCHANGED <<ourCurrentProfile, ourWrittenProfiles, ourProfilingStateGuard,
                 ourCancelAutostop, chanBuf, now, tracing,
                 cpuProfiling, dirs, packing, last>>

\* case <-cancelAutostop: the goroutine returns
WatcherCancelled(d) ==
  /\ watcher[d] = "select"
  /\ chanBuf[d] > 0
  /\ chanBuf' = [chanBuf EXCEPT ![d] = 0]
  /\ watcher' = [watcher EXCEPT ![d] = "done"]
  /\ UNCHANGED <<ourCurrentProfile, ourWrittenProfiles, ourProfilingStateGuard,
                 ourCancelAutostop, now, tracing, cpuProfiling, dirs, packing, last>>

\* Lock() in the goroutine: it returns when there are no readers, else it
\* announces itself and waits for them to leave
WatcherLock(d) ==
  /\ watcher[d] = "lock"
  /\ ourProfilingStateGuard = Unlocked
  /\ IF Readers = 0
     THEN /\ ourProfilingStateGuard' = WatcherId(d)
          /\ watcher' = [watcher EXCEPT ![d] = "locked"]
     ELSE /\ ourProfilingStateGuard' = WatcherWaits(d)
          /\ UNCHANGED watcher
  /\ UNCHANGED <<ourCurrentProfile, ourWrittenProfiles, ourCancelAutostop,
                 chanBuf, now, tracing, cpuProfiling, dirs, packing, last>>

\* the last reader has left: the Lock() of the goroutine returns
WatcherGranted(d) ==
  /\ ourProfilingStateGuard = WatcherWaits(d)
  /\ Readers = 0
  /\ ourProfilingStateGuard' = WatcherId(d)
  /\ watcher' = [watcher EXCEPT ![d] = "locked"]
  /\ UNCHANGED <<ourCurrentProfile, ourWrittenProfiles, ourCancelAutostop,
                 chanBuf, now, tracing, cpuProfiling, dirs, packing, last>>

\* WatcherStop that returns without calling doStopProfiling
WatcherStop_ReturnsEarly(d, fault) ==
  /\ watcher[d] = "locked"
  /\ watcher' = [watcher EXCEPT ![d] = "done"]
  /\ ourProfilingStateGuard' = Unlocked
  /\ UNCHANGED <<ourCurrentProfile, ourWrittenProfiles, ourCancelAutostop,
                 chanBuf, now, tracing, cpuProfiling, dirs, packing, last>>

\* doStopProfiling runs, then the deferred Unlock()
WatcherStop(d, fault) ==
  /\ watcher[d] = "locked"
  /\ doStopProfiling(d, fault)
  /\ watcher' = [watcher EXCEPT ![d] = "done"]
  /\ ourProfilingStateGuard' = Unlocked
  /\ UNCHANGED <<now, packing>>

\* -------------------------------------------------------------------- time
\* the clock advances
Tick ==
  /\ now < MaxTime
  /\ now' = now + 1
  /\ UNCHANGED <<ourCurrentProfile, ourWrittenProfiles, ourProfilingStateGuard,
                 ourCancelAutostop, chanBuf, watcher, tracing,
                 cpuProfiling, dirs, packing, last>>

Next ==
  \/ ToggleLock
  \/ toggleProfiling
  \/ \E d \in Dirs : WatcherTimeout(d)
  \/ \E d \in Dirs : WatcherCancelled(d)
  \/ \E d \in Dirs : WatcherLock(d)
  \/ \E d \in Dirs, fault \in {"none", "dump"} : WatcherStop(d, fault)

\* the program while the clock stands still
Spec == Init /\ [][Next]_vars

\* the program and the clock
TimedSpec == Init /\ [][Next \/ Tick]_vars

\* Every handler of the server and the autostop goroutines.  The starts are
\* those of one continuous and one one-off profile, the one fault is that of
\* dumpProfile; the requests with wrong parameters are left to Next.
ServerNext ==
  \/ ToggleLock
  \/ ToggleGranted
  \/ \E p \in {profileCPU, profileHeap} :
       \E fault \in StartFaults(p) \cap {"none", "dump"} : ToggleStart(p, fault)
  \/ ToggleStop("none")
  \/ \E d \in Dirs : WatcherTimeout(d)
  \/ \E d \in Dirs : WatcherCancelled(d)
  \/ \E d \in Dirs : WatcherLock(d)
  \/ \E d \in Dirs : WatcherGranted(d)
  \/ \E d \in Dirs : WatcherStop(d, "none")
  \/ downloadProfile
  \/ showWrittenProfiles

ServerSpec == Init /\ [][ServerNext]_vars

\* The server and the clock, with one download at a time and one session
\* profile.
HistoryNext ==
  \/ ToggleLock
  \/ ToggleGranted
  \/ \E fault \in {"none", "dump"} : ToggleStart(profileHeap, fault)
  \/ ToggleStart(profileCPU, "none")
  \/ ToggleStop("none")
  \/ \E d \in Dirs : WatcherTimeout(d)
  \/ \E d \in Dirs : WatcherCancelled(d)
  \/ \E d \in Dirs : WatcherLock(d)
  \/ \E d \in Dirs : WatcherGranted(d)
  \/ \E d \in Dirs : WatcherStop(d, "none")
  \/ \E path \in Paths : DownloadRefused(path)
  \/ \E path \in Dirs : Readers = 0 /\ DownloadPack(path)
  \/ \E path \in Dirs : DownloadDone(path, TRUE)
  \/ showWrittenProfiles
  \/ Tick

HistorySpec == Init /\ [][HistoryNext]_vars

\* The sessions alone: every start is a start of a continuous profile whose
\* bindings succeed, every other request is a stop.
SessionNext ==
  \/ ToggleLock
  \/ \E p \in ContinuousProfiles : ToggleStart(p, "none")
  \/ ToggleStop("none")
  \/ \E d \in Dirs : WatcherTimeout(d)
  \/ \E d \in Dirs : WatcherCancelled(d)
  \/ \E d \in Dirs : WatcherLock(d)
  \/ \E d \in Dirs : WatcherStop(d, "none")

\* Scheduling: a timer that is armed fires and a goroutine that can run does
\* run (there are finitely many autostop goroutines and each makes finitely
\* many steps, so fairness to them together is fairness to each); a
\* goroutine blocked in Lock() gets the lock when it is released again and
\* again (sync.RWMutex hands the lock to a starving waiter); a handler that
\* holds the lock returns.
Fairness ==
  /\ WF_vars(\E d \in Dirs : WatcherTimeout(d) \/ WatcherStop(d, "none"))
  /\ SF_vars(\E d \in Dirs : WatcherLock(d))
  /\ WF_vars(ToggleStop("none"))

LiveSpec == Init /\ [][SessionNext]_vars /\ Fairness

\* The sessions and the downloads of their directories: every start is a
\* start of profile cpu whose bindings succeed, every download is packed.
ServerLiveNext ==
  \/ ToggleLock
  \/ ToggleGranted
  \/ ToggleStart(profileCPU, "none")
  \/ ToggleStop("none")
  \/ \E d \in Dirs : WatcherTimeout(d)
  \/ \E d \in Dirs : WatcherCancelled(d)
  \/ \E d \in Dirs : WatcherLock(d)
  \/ \E d \in Dirs : WatcherGranted(d)
  \/ \E d \in Dirs : WatcherStop(d, "none")
  \/ \E path \in Dirs : DownloadPack(path)
  \/ \E path \in Dirs : DownloadDone(path, TRUE)

\* Scheduling of the server: as Fairness, and a Lock() whose readers have
\* left returns, and packProfiles and the sending of the archive come to an
\* end.
ServerFairness ==
  /\ WF_vars(\E d \in Dirs :
               WatcherTimeout(d) \/ WatcherGranted(d) \/ WatcherStop(d, "none"))
  /\ SF_vars(\E d \in Dirs : WatcherLock(d))
  /\ WF_vars(ToggleGranted \/ ToggleStop("none"))
  /\ WF_vars(\E path \in Dirs : DownloadDone(path, TRUE))

ServerLiveSpec == Init /\ [][ServerLiveNext]_vars /\ ServerFairness

\* ================================================================= claims
\* a handler finishes in this step: it releases the write lock
HandlerReturns ==
  ourProfilingStateGuard # Unlocked /\ ourProfilingStateGuard' = Unlocked

InHistory(d) ==
  \E i \in 1..Len(ourWrittenProfiles) : ourWrittenProfiles[i].Dir = d

\* the sessions that were started and have not been completed
OpenSessions == {d \in Dirs : watcher[d] # "none" /\ ~InHistory(d)}

Invoked(calls, fn) == {i \in 1..Len(calls) : calls[i].fn = fn}

\* C1: two sessions never overlap: at most one started session is not yet
\* completed, it is the one in ourCurrentProfile, and no handler invokes
\* startWritingTrace or startCPUProfiling while a session is active
C1_NoOverlap ==
  /\ [](/\ Cardinality(OpenSessions) <= 1
        /\ \A d \in OpenSessions : ourCurrentProfile.Dir = d
        /\ profilingInProgress => ourCurrentProfile.Dir \in OpenSessions)
  /\ [][(HandlerReturns /\ profilingInProgress) =>
          /\ Invoked(last'.calls, "startWritingTrace") = {}
          /\ Invoked(last'.calls, "startCPUProfiling") = {}]_vars

\* a start is refused because a session is active
C1_Witness ==
  /\ last.op = "start" /\ last.err = "already started"
  /\ Cardinality(OpenSessions) = 1

\* C2: while no handler holds the lock, the CPU sampler runs only for a
\* session of profile cpu or all and the trace collector only for a session
\* of profile trace or all; when there is no session neither runs
C2_NoCollectorWithoutSession ==
  ourProfilingStateGuard = Unlocked =>
    /\ cpuProfiling => ourCurrentProfile.Prof \in {profileCPU, profileAll}
    /\ tracing => ourCurrentProfile.Prof \in {profileTrace, profileAll}
    /\ ~profilingInProgress => ~cpuProfiling /\ ~tracing

\* a session of profile all was stopped and both collectors are off
C2_Witness ==
  /\ ourProfilingStateGuard = Unlocked
  /\ last.op \in {"stop", "autostop"}
  /\ Invoked(last.calls, "stopWritingTrace") # {}
  /\ Invoked(last.calls, "stopCPUProfiling") # {}
  /\ ~profilingInProgress /\ ~tracing /\ ~cpuProfiling

\* session d of profile k is in the history
Completed(d, k) ==
  \E i \in 1..Len(ourWrittenProfiles) :
    ourWrittenProfiles[i].Dir = d /\ ourWrittenProfiles[i].Prof = k

\* how often a stop of a session of profile k invokes each stop binding
Expected(k, fn) ==
  IF \/ fn = "stopCPUProfiling" /\ k \in {profileCPU, profileAll}
     \/ fn = "stopWritingTrace" /\ k \in {profileTrace, profileAll}
  THEN 1 ELSE 0

\* the last handler stopped session d: there is no session, d is in the
\* history, the stop bindings of its profile were invoked and the collectors
\* are off
JustStopped(d) ==
  /\ ~profilingInProgress
  /\ last.op \in {"stop", "autostop"} /\ last.dir = d
  /\ \E k \in ContinuousProfiles :
       /\ Completed(d, k)
       /\ \A fn \in {"stopCPUProfiling", "stopWritingTrace"} :
            Cardinality(Invoked(last.calls, fn)) = Expected(k, fn)
  /\ ~tracing /\ ~cpuProfiling

\* C3: a session that was started is eventually stopped, by its autostop
\* goroutine if nobody else does it, with the effect of a manual stop
C3_TimeoutStops ==
  \A d \in Dirs : (ourCurrentProfile.Dir = d) ~> JustStopped(d)

\* an autostop goroutine stopped its own session
C3_Witness ==
  /\ last.op = "autostop" /\ last.dir # NoDir /\ last.dir = last.watcher
  /\ ~profilingInProgress /\ InHistory(last.dir)
  /\ Invoked(last.calls, "stopCPUProfiling") # {}

\* C4: an autostop goroutine whose own session is already in the history
\* changes nothing when it gets the lock: it stops no session, appends
\* nothing to the history and sends no cancel to a goroutine still alive
C4_StaleWatcherIsNoOp ==
  [][\A d \in Dirs :
       (watcher[d] = "locked" /\ watcher'[d] = "done" /\ InHistory(d)) =>
         /\ UNCHANGED <<ourCurrentProfile, ourWrittenProfiles, tracing,
                        cpuProfiling>>
         /\ \A e \in Dirs \ {d} :
              watcher[e] \in {"select", "lock"} => chanBuf'[e] = chanBuf[e]]_vars

Occurrences(d) ==
  {i \in 1..Len(ourWrittenProfiles) : ourWrittenProfiles[i].Dir = d}

\* C5: every session that was started is completed exactly once: it gets
\* into the history, it is there once, the step that puts it there invokes
\* each stop binding of its profile once, and no other step invokes a stop
\* binding while the session is active
C5_CompletedExactlyOnce ==
  /\ [](\A d \in Dirs : Cardinality(Occurrences(d)) <= 1)
  /\ [][HandlerReturns /\ profilingInProgress =>
          \A fn \in {"stopCPUProfiling", "stopWritingTrace"} :
            Cardinality(Invoked(last'.calls, fn)) =
              IF ourCurrentProfile' = ourCurrentProfile THEN 0
              ELSE Expected(ourCurrentProfile.Prof, fn)]_vars
  /\ [][ourCurrentProfile' # ourCurrentProfile /\ profilingInProgress =>
          /\ ourCurrentProfile' = nil
          /\ ourWrittenProfiles' =
               Append(ourWrittenProfiles,
                      [ourCurrentProfile EXCEPT
                         !.Duration = now - ourCurrentProfile.Start])]_vars
  /\ \A d \in Dirs : (watcher[d] # "none") ~> InHistory(d)

\* a manual stop completed a session whose autostop goroutine is waiting for
\* the lock
C5_Witness ==
  /\ last.op = "stop" /\ last.dir # NoDir
  /\ watcher[last.dir] = "lock"
  /\ Cardinality(Occurrences(last.dir)) = 1

MachineState ==
  <<ourCurrentProfile, ourWrittenProfiles, ourCancelAutostop, chanBuf,
    watcher, tracing, cpuProfiling, dirs>>

\* C6: a start of any known profile while a session is active returns the
\* error "already started" and no directory, invokes no binding and leaves
\* the session, the history, the cancel channel, the goroutines, the
\* collectors and the directories as they were
C6_StartWhileActive ==
  [][\A p \in KnownProfiles, fault \in Faults :
       (profilingInProgress /\ ToggleStart(p, fault)) =>
         /\ last'.err = "already started"
         /\ last'.dir = NoDir
         /\ last'.calls = <<>>
         /\ UNCHANGED MachineState]_vars

\* a start was refused while a session is active
C6_Witness ==
  /\ last.op = "start" /\ last.err = "already started"
  /\ profilingInProgress /\ ourProfilingStateGuard = Unlocked

\* C7: a stop while there is no session returns no directory, invokes no
\* binding and leaves the slot empty and the history as it was
C7_StopWhenIdle ==
  [][\A fault \in {"none", "dump"} :
       (~profilingInProgress /\ ToggleStop(fault)) =>
         /\ last'.dir = NoDir
         /\ last'.calls = <<>>
         /\ ourCurrentProfile' = nil
         /\ UNCHANGED <<ourWrittenProfiles, tracing, cpuProfiling, watcher,
                        dirs, ourCancelAutostop>>]_vars

\* a stop found no session, after another session had been completed
C7_Witness ==
  /\ last.op = "stop" /\ last.dir = NoDir /\ last.calls = <<>>
  /\ ~profilingInProgress /\ ourWrittenProfiles # <<>>

\* C8: a start with an unknown profile returns the error "unknown profile"
\* whether or not a session is active, and changes nothing
C8_UnknownProfile ==
  [][\A p \in ProfileParams \ KnownProfiles, fault \in Faults :
       ToggleStart(p, fault) =>
         /\ last'.err = "unknown profile"
         /\ last'.dir = NoDir
         /\ last'.calls = <<>>
         /\ UNCHANGED MachineState]_vars

\* an unknown profile was refused while a session is active
C8_Witness ==
  /\ last.op = "start" /\ last.err = "unknown profile"
  /\ profilingInProgress

\* C9: when startWritingTrace fails in a start of profile all, the start
\* returns an error and no directory, startCPUProfiling is not invoked, both
\* stop bindings are invoked once, the directory is removed, no goroutine is
\* armed, the history is as it was and there is no session
C9_TraceBeginFails ==
  [][(~profilingInProgress /\ ToggleStart(profileAll, "trace")) =>
     /\ last'.err = "start failed"
     /\ last'.dir = NoDir
     /\ Invoked(last'.calls, "startCPUProfiling") = {}
     /\ Cardinality(Invoked(last'.calls, "stopWritingTrace")) = 1
     /\ Cardinality(Invoked(last'.calls, "stopCPUProfiling")) = 1
     /\ dirs[NextDir] = "absent" /\ dirs'[NextDir] = "removed"
     /\ ~profilingInProgress'
     /\ UNCHANGED <<ourWrittenProfiles, watcher, ourCancelAutostop,
                    chanBuf>>]_vars

\* a start of profile all failed in startWritingTrace
C9_Witness ==
  /\ last.op = "start" /\ last.err = "start failed"
  /\ Len(last.calls) = 3
  /\ last.calls[1].fn = "startWritingTrace" /\ ~last.calls[1].ok
  /\ dirs[last.calls[1].dir] = "removed"

\* C10: when startCPUProfiling fails in a start of profile all after
\* startWritingTrace succeeded, the start returns an error and no directory,
\* both stop bindings are invoked once, the trace collector is off again,
\* the directory is removed, no goroutine is armed, the history is as it was
\* and there is no session
C10_CPUBeginFails ==
  [][(~profilingInProgress /\ ToggleStart(profileAll, "cpu")) =>
     /\ last'.err = "start failed"
     /\ last'.dir = NoDir
     /\ Cardinality(Invoked(last'.calls, "startWritingTrace")) = 1
     /\ Cardinality(Invoked(last'.calls, "stopWritingTrace")) = 1
     /\ Cardinality(Invoked(last'.calls, "stopCPUProfiling")) = 1
     /\ ~tracing' /\ ~cpuProfiling'
     /\ dirs[NextDir] = "absent" /\ dirs'[NextDir] = "removed"
     /\ ~profilingInProgress'
     /\ UNCHANGED <<ourWrittenProfiles, watcher, ourCancelAutostop,
                    chanBuf>>]_vars

\* a start of profile all failed in startCPUProfiling
C10_Witness ==
  /\ last.op = "start" /\ last.err = "start failed"
  /\ Len(last.calls) = 4
  /\ last.calls[1].fn = "startWritingTrace" /\ last.calls[1].ok
  /\ last.calls[2].fn = "startCPUProfiling" /\ ~last.calls[2].ok
  /\ dirs[last.calls[1].dir] = "removed"
  /\ ~tracing

\* the names of the bindings invoked, in order
Fns(calls) == [i \in 1..Len(calls) |-> calls[i].fn]

\* C11: a start of a one-off profile (goroutine, threadcreate, heap, block)
\* while there is no session, whose dumpProfile succeeds, invokes dumpProfile
\* once with that profile and the new directory and no other binding,
\* returns that directory, appends one entry with that profile, that
\* directory and duration zero, leaves no session and arms no goroutine
C11_OneOffStart ==
  [][\A p \in {profileGoroutine, profileThreadcreate, profileHeap,
               profileBlock} :
       (~profilingInProgress /\ ToggleStart(p, "none")) =>
         /\ dirs[NextDir] = "absent" /\ dirs'[NextDir] = "exists"
         /\ last'.calls = <<Call("dumpProfile", p, NextDir, TRUE)>>
         /\ last'.err = "" /\ last'.dir = NextDir
         /\ ourWrittenProfiles' =
              Append(ourWrittenProfiles, prof(p, NextDir, now, 0))
         /\ ~profilingInProgress'
         /\ UNCHANGED <<watcher, ourCancelAutostop, chanBuf, tracing,
                        cpuProfiling>>]_vars

\* a heap profile was dumped into the second directory
C11_Witness ==
  /\ last.op = "start" /\ last.err = "" /\ last.dir = 2
  /\ Fns(last.calls) = <<"dumpProfile">>
  /\ last.calls[1].profile = profileHeap
  /\ Len(ourWrittenProfiles) >= 1
  /\ ourWrittenProfiles[Len(ourWrittenProfiles)] = prof(profileHeap, 2, now, 0)
  /\ ~profilingInProgress

\* C12: a successful start of profile all returns the directory of the
\* session it makes; a stop of that session returns the same directory,
\* invokes dumpProfile with heap and that directory, stopCPUProfiling once
\* and stopWritingTrace once, appends the session to the history and leaves
\* no session, whether dumpProfile succeeds or fails
C12_StopAll ==
  /\ [][(~profilingInProgress /\ ToggleStart(profileAll, "none")) =>
          /\ last'.err = "" /\ last'.dir # NoDir
          /\ ourCurrentProfile'.Dir = last'.dir
          /\ ourCurrentProfile'.Prof = profileAll]_vars
  /\ [][\A fault \in {"none", "dump"} :
          (ourCurrentProfile.Prof = profileAll /\ ToggleStop(fault)) =>
            /\ last'.dir = ourCurrentProfile.Dir
            /\ Cardinality(Invoked(last'.calls, "stopWritingTrace")) = 1
            /\ Cardinality(Invoked(last'.calls, "stopCPUProfiling")) = 1
            /\ \E i \in Invoked(last'.calls, "dumpProfile") :
                 /\ last'.calls[i].profile = profileHeap
                 /\ last'.calls[i].dir = ourCurrentProfile.Dir
                 /\ last'.calls[i].ok = (fault = "none")
            /\ Len(ourWrittenProfiles') = Len(ourWrittenProfiles) + 1
            /\ ourWrittenProfiles'[Len(ourWrittenProfiles')].Dir =
                 ourCurrentProfile.Dir
            /\ ~profilingInProgress'
            /\ ~tracing' /\ ~cpuProfiling']_vars

\* a session of profile all was stopped although dumpProfile failed
C12_Witness ==
  /\ last.op = "stop" /\ last.dir # NoDir
  /\ \E i \in Invoked(last.calls, "dumpProfile") : ~last.calls[i].ok
  /\ Completed(last.dir, profileAll)
  /\ ~profilingInProgress

\* the autostop goroutines that have not returned
LiveWatchers == {d \in Dirs : watcher[d] \in {"select", "lock", "locked"}}

\* C16: at most one autostop goroutine has not returned
C16_OneWatcher == Cardinality(LiveWatchers) <= 1

\* C19: a start that returns an error, whatever the cause, leaves the
\* session slot and the history as they were, arms no goroutine, sends no
\* cancel and leaves no collector running that was not running before
C19_FailedStartStartsNothing ==
  [][\A p \in ProfileParams, fault \in Faults :
       (ToggleStart(p, fault) /\ last'.err # "") =>
         /\ last'.dir = NoDir
         /\ UNCHANGED <<ourCurrentProfile, ourWrittenProfiles, watcher,
                        ourCancelAutostop, chanBuf>>
         /\ tracing' => tracing
         /\ cpuProfiling' => cpuProfiling]_vars

\* a start of profile all failed in startCPUProfiling after a session had
\* been completed, and nothing runs
C19_Witness ==
  /\ last.op = "start" /\ last.err = "start failed"
  /\ \E i \in Invoked(last.calls, "startCPUProfiling") : ~last.calls[i].ok
  /\ Invoked(last.calls, "startWritingTrace") # {}
  /\ ourWrittenProfiles # <<>>
  /\ ~profilingInProgress /\ ~tracing /\ ~cpuProfiling

Downloadable(d) == InHistory(d) /\ DownloadError(d) = ""

\* C14: while a download of the directory of one written profile is in
\* progress, a download of the directory of another written profile gets
\* the read lock without waiting, also when a start or a stop waits for the
\* write lock
C14_DownloadsDoNotBlock ==
  \A d1, d2 \in Dirs :
    (d1 # d2 /\ packing[d1] > 0 /\ InHistory(d1) /\ Downloadable(d2)
       /\ Readers < MaxDownloads)
    => ENABLED DownloadPack(d2)

\* C15: the history only grows, by one entry at its end at a time: by an
\* entry of duration zero for the directory returned by a successful start
\* of a one-off profile, or by the active session, with the profile, the
\* directory and the start time it has had since its start, when a stop or
\* an autostop goroutine ends it; a download and a status request leave the
\* history as it is
C15_HistoryAppendOnly ==
  /\ [][\/ UNCHANGED ourWrittenProfiles
        \/ \E e \in {ourWrittenProfiles'[Len(ourWrittenProfiles')]} :
             /\ ourWrittenProfiles' = Append(ourWrittenProfiles, e)
             /\ \/ /\ last'.op = "start" /\ last'.err = ""
                   /\ e.Prof \in KnownProfiles \ ContinuousProfiles
                   /\ e = prof(e.Prof, last'.dir, now, 0)
                   /\ UNCHANGED ourCurrentProfile
                \/ /\ last'.op \in {"stop", "autostop"}
                   /\ profilingInProgress /\ ~profilingInProgress'
                   /\ e.Prof = ourCurrentProfile.Prof
                   /\ e.Dir = ourCurrentProfile.Dir
                   /\ e.Start = ourCurrentProfile.Start
                   /\ e.Duration = now - e.Start]_vars
  /\ [][profilingInProgress /\ profilingInProgress' =>
          UNCHANGED ourCurrentProfile]_vars
  /\ [][~profilingInProgress /\ profilingInProgress' =>
          ourCurrentProfile'.Start = now]_vars
  /\ [][last'.op \in {"download", "status"} /\ last' # last =>
          UNCHANGED ourWrittenProfiles]_vars

\* a session started at tick 0 was appended at tick 1 behind the entry of a
\* one-off profile, and a download is in progress
C15_Witness ==
  /\ Len(ourWrittenProfiles) = 2
  /\ ourWrittenProfiles[1].Prof = profileHeap
  /\ ourWrittenProfiles[2] = prof(profileCPU, 2, 0, 1)
  /\ \E d \in Dirs : packing[d] > 0

C18_OnlyCompletedSessions ==
  \A d \in Dirs : packing[d] > 0 => InHistory(d)

\* the places of step fn in the sequence of steps
Places(steps, fn) == {i \in 1..Len(steps) : steps[i] = fn}

\* step a occurs once, step b occurs once, and a comes before b
Before(steps, a, b) ==
  /\ Cardinality(Places(steps, a)) = 1
  /\ Cardinality(Places(steps, b)) = 1
  /\ \A i \in Places(steps, a), j \in Places(steps, b) : i < j

IsBinding(fn) == fn \in {"dumpProfile", "stopCPUProfiling", "stopWritingTrace"}

C22_WatcherArmedWhileActive ==
  /\ [](profilingInProgress =>
          /\ ourCancelAutostop = ourCurrentProfile.Dir
          /\ chanBuf[ourCurrentProfile.Dir] = 0
          /\ watcher[ourCurrentProfile.Dir] \in {"select", "lock", "locked"})
  /\ [][\A d \in Dirs :
          chanBuf'[d] > chanBuf[d] =>
            \/ /\ ourCurrentProfile.Dir = d
               /\ ~profilingInProgress'
               /\ InHistory(d)'
            \/ /\ ~profilingInProgress
               /\ InHistory(d)
               /\ UNCHANGED ourCurrentProfile]_vars

\* a session is active whose autostop goroutine waits for the lock, while
\* the goroutine of an earlier session has not returned either
C22_Witness ==
  /\ profilingInProgress
  /\ watcher[ourCurrentProfile.Dir] = "lock"
  /\ \E d \in Dirs : d # ourCurrentProfile.Dir /\ watcher[d] = "lock"

\* C23: every directory a start has made and that still exists is the
\* directory of the active session or of an entry of the history
C23_NoOrphanDirectory ==
  \A d \in Dirs :
    dirs[d] = "exists" => (ourCurrentProfile.Dir = d \/ InHistory(d))

\* C24: toggleProfiling answers 400 and changes nothing when 'enable' is
\* neither 0 nor 1 and when enable=1 comes without 'profile'; enable=0
\* without a session answers 400 and leaves the slot, the history and the
\* collectors as they were; enable=0 with a session ends it and answers
\* 200; and the slot and the history change only in a step of a holder of
\* the write lock
C24_ToggleAnswers ==
  /\ [][\A enable \in EnableParams :
          ToggleBadParam(enable) =>
            /\ last'.err = "bad value for enable"
            /\ Status(last') = StatusBadRequest
            /\ UNCHANGED MachineState]_vars
  /\ [][\A fault \in Faults :
          ToggleStart("", fault) =>
            /\ last'.err # ""
            /\ Status(last') = StatusBadRequest
            /\ UNCHANGED MachineState]_vars
  /\ [][\A fault \in {"none", "dump"} :
          ToggleStop(fault) =>
            IF profilingInProgress
            THEN /\ Status(last') = StatusOK
                 /\ last'.dir = ourCurrentProfile.Dir
                 /\ ~profilingInProgress'
                 /\ ourWrittenProfiles' =
                      Append(ourWrittenProfiles, Finished(ourCurrentProfile))
            ELSE /\ Status(last') = StatusBadRequest
                 /\ UNCHANGED <<ourCurrentProfile, ourWrittenProfiles, tracing,
                                cpuProfiling, watcher, dirs,
                                ourCancelAutostop>>]_vars
  /\ [][~UNCHANGED <<ourCurrentProfile, ourWrittenProfiles, tracing,
                     cpuProfiling>> =>
          /\ ourProfilingStateGuard \in {Request} \cup {WatcherId(d) : d \in Dirs}
          /\ ourProfilingStateGuard' = Unlocked]_vars

\* a request with a bad 'enable' was refused while a session is active
C24_Witness ==
  /\ last.op = "badparam" /\ Status(last) = StatusBadRequest
  /\ profilingInProgress /\ ourProfilingStateGuard = Unlocked

\* C25: a download and a status request leave the slot, the history, the
\* cancel channel, the goroutines and the collectors as they are; the
\* directory of the active session is the directory of no entry of the
\* history, and no two entries of the history have the same directory
C25_ReadOnlyHandlers ==
  /\ [][(downloadProfile \/ showWrittenProfiles) =>
          UNCHANGED <<ourCurrentProfile, ourWrittenProfiles,
                      ourCancelAutostop, chanBuf, watcher, tracing,
                      cpuProfiling, dirs>>]_vars
  /\ [](profilingInProgress => ~InHistory(ourCurrentProfile.Dir))
  /\ [](\A i, j \in 1..Len(ourWrittenProfiles) :
          ourWrittenProfiles[i].Dir = ourWrittenProfiles[j].Dir => i = j)

\* the list was served while a session is active and the directory of the
\* one entry of the history is being packed
C25_Witness ==
  /\ last.op = "status"
  /\ profilingInProgress
  /\ Len(ourWrittenProfiles) = 1
  /\ packing[ourWrittenProfiles[1].Dir] > 0

====
